---- MODULE Spec2Model ----
(***************************************************************************)
(* The geometry cache of the renderer (src/src/renderer/cache/geometry.rs):*)
(* GeometryCache::get / update / clear over a SparseBuffer<CacheEntry>,    *)
(* and the surface data objects whose cache_entry cell names a slot of it. *)
(* Time (TimeToLive, dt) is counted in whole ticks.                        *)
(***************************************************************************)
EXTENDS Integers, Sequences, FiniteSets, TLC

\* ------------------------------------------------------------- bounds
\* The store never grows beyond MaxSlots slots (guard of the miss path).
MaxSlots == 2
\* At most MaxEdits edits of the surfaces (payload modifications and layout
\* changes, over all surfaces) happen in a run.
MaxEdits == 1
\* Requested lifetimes are 0..MaxTtl, elapsed times 0..MaxTtl.
MaxTtl == 2

\* The surface data objects (distinct identities).
Sources == {"A", "B"}
\* Values of VertexBuffer::layout_hash().
Layouts == {0, 1}
TtlValues == 0..MaxTtl
DtValues == 0..MaxTtl

\* AtomicIndex::UNASSIGNED_INDEX (usize::MAX): no slot ever has this index.
UNASSIGNED_INDEX == 2147483647

VARIABLES
    vec,          \* SparseBuffer: the slots, slot i at vec[i + 1]; {} = None, {e} = Some(e)
    free,         \* SparseBuffer: the stack of freed indices
    surf,         \* the surface data objects
    edits,        \* the number of surface edits so far
    hist,         \* whether the history below is recorded (constant in a run)
    last,         \* the most recent call and what it returned / did
    firstSlot,    \* history: slot the first get returned since the source / cache last changed
    gone,         \* history: what happened to the source's entry since its last get
    layoutAtGet,  \* history: the source's layout hash at its last get
    lock,         \* the lock of each surface data object: "free", or who holds it
    run,          \* the get in progress, when get is followed statement by statement
    mutator,      \* another subsystem editing a surface under its lock
    editor        \* the editor: the scene context and the command under its undo stack

vars == <<vec, free, surf, edits, hist, last, firstSlot, gone, layoutAtGet,
          lock, run, mutator, editor>>

\* ------------------------------------------------- Option<T> as a set
None == {}
Some(x) == {x}
Unwrap(o) == CHOOSE x \in o : TRUE

\* ------------------------------------------- SparseBuffer<CacheEntry>
\* SparseBuffer::len: the high-water mark of allocated slots.
len == Len(vec)

\* SparseBuffer::get_raw: bounds- and tombstone-checked lookup.
get_raw(i) == IF i >= 0 /\ i < len THEN vec[i + 1] ELSE None

\* SparseBuffer::get_mut(&AtomicIndex)
get_mut(index) == get_raw(index)

\* Index SparseBuffer::spawn hands out: a freed index if one exists, else len.
spawn_index == IF free # <<>> THEN free[Len(free)] ELSE len

\* SparseBuffer::spawn: the slots after inserting entry.
spawn_vec(entry) ==
    IF free # <<>>
    THEN [vec EXCEPT ![free[Len(free)] + 1] = Some(entry)]
    ELSE Append(vec, Some(entry))

\* SparseBuffer::spawn: the free stack after inserting.
spawn_free == IF free # <<>> THEN SubSeq(free, 1, Len(free) - 1) ELSE free

\* Live slot indices of a slot sequence.
LiveOf(v) == {i \in 0..(Len(v) - 1) : v[i + 1] # None}
Live == LiveOf(vec)
EntryAt(i) == Unwrap(vec[i + 1])

\* ------------------------------------------------------ GeometryBuffer
\* The content of a surface's vertex payload: each modification of each
\* surface yields content of its own, named by the surface and its counter.
raw_data(s) == <<s, surf[s].vmods>>

\* The content of a surface's triangle list.
triangles_ref(s) == <<s, surf[s].tmods>>

\* GeometryBuffer::from_surface_data: a buffer built from the full payload.
from_surface_data(s) == [vertices |-> raw_data(s), triangles |-> triangles_ref(s)]

\* GeometryBuffer::set_buffer_data(state, 0, raw_data): the whole vertex payload.
set_buffer_data(b, data) == [b EXCEPT !.vertices = data]

\* GeometryBuffer binding set_triangles: the triangle list is replaced.
set_triangles(b, tris) == [b EXCEPT !.triangles = tris]

\* ------------------------------------------------------- GeometryCache
\* create_geometry_buffer with the watermarks of a new entry left at zero
\* instead of the source's counters.
NewEntryZeroMarks(s, ttl) ==
    [buffer |-> from_surface_data(s),
     time_to_live |-> ttl,
     vertex_modifications_count |-> 0,
     triangles_modifications_count |-> 0,
     layout_hash |-> surf[s].layout_hash,
     madeFor |-> s, lastTtl |-> ttl, since |-> 0, uploaded |-> <<FALSE, FALSE>>]

\* The CacheEntry create_geometry_buffer spawns for surface s (madeFor,
\* lastTtl, since and uploaded are history fields, not fields of the code:
\* uploaded tells which uploads the most recent get made into the entry).
NewEntry(s, ttl) ==
    [buffer |-> from_surface_data(s),
     time_to_live |-> ttl,
     vertex_modifications_count |-> surf[s].vmods,
     triangles_modifications_count |-> surf[s].tmods,
     layout_hash |-> surf[s].layout_hash,
     madeFor |-> s, lastTtl |-> ttl, since |-> 0, uploaded |-> <<FALSE, FALSE>>]

\* get whose lookup hits only an entry that is up to date: an entry with a
\* stale watermark is treated like one with another layout, and rebuilt.
IsHitUpToDate(s) ==
    /\ get_mut(surf[s].cache_entry) # None
    /\ Unwrap(get_mut(surf[s].cache_entry)).layout_hash = surf[s].layout_hash
    /\ Unwrap(get_mut(surf[s].cache_entry)).vertex_modifications_count = surf[s].vmods
    /\ Unwrap(get_mut(surf[s].cache_entry)).triangles_modifications_count = surf[s].tmods

\* get: the lookup hits (a live slot whose layout hash is the source's).
IsHit(s) ==
    /\ get_mut(surf[s].cache_entry) # None
    /\ Unwrap(get_mut(surf[s].cache_entry)).layout_hash = surf[s].layout_hash

\* get, hit path: the vertex payload is uploaded.
VertexDirty(s, e) == surf[s].vmods # e.vertex_modifications_count

\* get, hit path: the triangle list is uploaded.
TrianglesDirty(s, e) == surf[s].tmods # e.triangles_modifications_count

\* get, hit path, without entry.vertex_modifications_count = ...: the vertex
\* payload is uploaded and the watermark left behind.
SyncVerticesNoMark(s, e) ==
    IF VertexDirty(s, e)
    THEN [e EXCEPT !.buffer = set_buffer_data(e.buffer, raw_data(s))]
    ELSE e

\* get, hit path: vertex upload and watermark.
SyncVertices(s, e) ==
    IF VertexDirty(s, e)
    THEN [e EXCEPT !.buffer = set_buffer_data(e.buffer, raw_data(s)),
                   !.vertex_modifications_count = surf[s].vmods]
    ELSE e

\* get, hit path, without entry.triangles_modifications_count = ...: the
\* triangle list is replaced and the watermark left behind.
SyncTrianglesNoMark(s, e) ==
    IF TrianglesDirty(s, e)
    THEN [e EXCEPT !.buffer = set_triangles(e.buffer, triangles_ref(s))]
    ELSE e

\* get, hit path: triangle upload and watermark.
SyncTriangles(s, e) ==
    IF TrianglesDirty(s, e)
    THEN [e EXCEPT !.buffer = set_triangles(e.buffer, triangles_ref(s)),
                   !.triangles_modifications_count = surf[s].tmods]
    ELSE e

\* get, hit path, without entry.time_to_live = ttl: the lifetime is not refreshed.
TouchKeep(e, ttl) == [e EXCEPT !.lastTtl = ttl, !.since = 0]

\* get, hit path, with the lifetime aggregated: the larger of the remaining
\* and the requested lifetime is kept.
TouchMax(e, ttl) ==
    [e EXCEPT !.time_to_live = IF @ > ttl THEN @ ELSE ttl, !.lastTtl = ttl, !.since = 0]

\* get, hit path, refreshing only for a positive request: a requested
\* lifetime <= 0 leaves the remaining lifetime as it is.
TouchIfPositive(e, ttl) ==
    [e EXCEPT !.time_to_live = IF ttl > 0 THEN ttl ELSE @, !.lastTtl = ttl, !.since = 0]

\* get, hit path: entry.time_to_live = ttl.
Touch(e, ttl) ==
    [e EXCEPT !.time_to_live = ttl, !.lastTtl = ttl, !.since = 0]

\* update: the eviction test, strict.
ExpiredStrict(e) == e.time_to_live < 0

\* update: the eviction test of an entry.
Expired(e) == e.time_to_live <= 0

\* update, first loop iterating over copies of the entries: the decrement is
\* lost.
DecayCopies(dt) == vec

\* update, first loop: every live entry's lifetime is decremented by dt.
Decay(dt) ==
    [k \in 1..Len(vec) |->
        IF vec[k] = None THEN None
        ELSE Some([Unwrap(vec[k]) EXCEPT !.time_to_live = @ - dt, !.since = @ + dt])]

\* update, second loop bounded by the number of live entries instead of the
\* high-water mark len(): indices at or above that number are not visited.
ExpiredInLiveCount(v) ==
    {i \in LiveOf(v) : i < Cardinality(LiveOf(v)) /\ Expired(Unwrap(v[i + 1]))}

\* update, second loop leaving after its first free_raw: only the lowest
\* expired index is freed.
ExpiredInFirst(v) ==
    {i \in LiveOf(v) : /\ Expired(Unwrap(v[i + 1]))
                       /\ \A j \in LiveOf(v) : Expired(Unwrap(v[j + 1])) => i <= j}

\* update, second loop: the indices freed, those of expired live entries.
ExpiredIn(v) == {i \in LiveOf(v) : Expired(Unwrap(v[i + 1]))}

\* The elements of a set of indices in ascending order (the order of 0..len).
RECURSIVE Ascending(_)
Ascending(S) ==
    IF S = {} THEN <<>>
    ELSE LET m == CHOOSE x \in S : \A y \in S : x <= y
         IN <<m>> \o Ascending(S \ {m})

\* get, hit path: which of the two uploads were made (history).
Noted(e, vup, tup) == [e EXCEPT !.uploaded = <<vup, tup>>]

\* What get records of itself: the slot whose buffer it returns, the path
\* taken and the uploads made.
Returned(s, idx, hit, vup, tup) ==
    IF hist
    THEN /\ last' = [op |-> "get", src |-> s, slot |-> idx, hit |-> hit,
                     vup |-> vup, tup |-> tup]
         /\ firstSlot' = [firstSlot EXCEPT ![s] = IF @ = None THEN Some(idx) ELSE @]
         /\ gone' = [gone EXCEPT ![s] = "no"]
         /\ layoutAtGet' = [layoutAtGet EXCEPT ![s] = Some(surf[s].layout_hash)]
    ELSE UNCHANGED <<last, firstSlot, gone, layoutAtGet>>

\* get with the miss path looking up the source's back-reference as it was
\* on entry instead of the index create_geometry_buffer returned.
UnwrappedIndexOnEntry(s) == surf[s].cache_entry

\* get: the index whose lookup is unwrapped for the buffer returned, the
\* back-reference on a hit, the index create_geometry_buffer returned on a miss.
UnwrappedIndex(s) == IF IsHit(s) THEN surf[s].cache_entry ELSE spawn_index

\* get whose hit path sets the lifetime of every live entry, not of the
\* entry it hit alone.
SlotsAfterGetTouchingAll(s, ttl) ==
    IF IsHit(s)
    THEN LET idx == surf[s].cache_entry
             e == Unwrap(get_mut(idx))
         IN [k \in 1..Len(vec) |->
                IF k = idx + 1
                THEN Some(Noted(Touch(SyncTriangles(s, SyncVertices(s, e)), ttl),
                                VertexDirty(s, e), TrianglesDirty(s, e)))
                ELSE IF vec[k] = None THEN None
                     ELSE Some(Touch(Unwrap(vec[k]), ttl))]
    ELSE spawn_vec(NewEntry(s, ttl))

\* get: the slots of the store when that lookup is made.
SlotsAfterGet(s, ttl) ==
    IF IsHit(s)
    THEN LET idx == surf[s].cache_entry
             e == Unwrap(get_mut(idx))
         IN [vec EXCEPT ![idx + 1] =
                Some(Noted(Touch(SyncTriangles(s, SyncVertices(s, e)), ttl),
                           VertexDirty(s, e), TrianglesDirty(s, e)))]
    ELSE spawn_vec(NewEntry(s, ttl))

\* GeometryCache::get(state, data, ttl)
Get(s, ttl) ==
    /\ vec' = SlotsAfterGet(s, ttl)
    /\ IF IsHit(s)
       THEN LET e == Unwrap(get_mut(surf[s].cache_entry)) IN
            /\ UNCHANGED <<free, surf>>
            /\ Returned(s, UnwrappedIndex(s), TRUE, VertexDirty(s, e), TrianglesDirty(s, e))
       ELSE /\ free # <<>> \/ len < MaxSlots
            /\ free' = spawn_free
            /\ surf' = [surf EXCEPT ![s].cache_entry = spawn_index]
            /\ Returned(s, UnwrappedIndex(s), FALSE, FALSE, FALSE)
    /\ UNCHANGED <<edits, hist, editor, lock, run, mutator>>

\* A source's own entry: the live entry made for s that its cache_entry names.
OwnEntryLive(s) ==
    /\ get_raw(surf[s].cache_entry) # None
    /\ Unwrap(get_raw(surf[s].cache_entry)).madeFor = s

\* update(dt) over a store that closes its gaps: the surviving entries are
\* moved down to the lowest indices and the slots above them are free.
UpdateCompacting(dt) ==
    LET decayed == Decay(dt)
        dead == ExpiredIn(decayed)
        Survives(o) == o # None /\ ~Expired(Unwrap(o))
        kept == SelectSeq(decayed, Survives)
    IN
    /\ vec' = kept \o [k \in 1..(Len(vec) - Len(kept)) |-> None]
    /\ free' = Ascending(Len(kept)..(Len(vec) - 1))
    /\ UNCHANGED <<surf, edits, hist, editor, layoutAtGet, lock, run, mutator>>
    /\ IF hist
       THEN /\ last' = [op |-> "update", dt |-> dt,
                        freed |-> {[slot |-> i, since |-> Unwrap(decayed[i + 1]).since,
                                    lastTtl |-> Unwrap(decayed[i + 1]).lastTtl] : i \in dead}]
            /\ firstSlot' = [s \in Sources |-> None]
            /\ gone' = [s \in Sources |->
                          IF gone[s] = "no" /\ OwnEntryLive(s) /\ surf[s].cache_entry \in dead
                          THEN "evicted" ELSE gone[s]]
       ELSE UNCHANGED <<last, firstSlot, gone>>

\* update(dt) that tells the sources: the back-reference of every source that
\* names a freed slot is reset to the unset sentinel.
UpdateNotifying(dt) ==
    LET decayed == Decay(dt)
        dead == ExpiredIn(decayed)
    IN
    /\ vec' = [k \in 1..Len(vec) |-> IF (k - 1) \in dead THEN None ELSE decayed[k]]
    /\ free' = free \o Ascending(dead)
    /\ surf' = [s \in Sources |->
                  IF surf[s].cache_entry \in dead
                  THEN [surf[s] EXCEPT !.cache_entry = UNASSIGNED_INDEX]
                  ELSE surf[s]]
    /\ UNCHANGED <<edits, hist, editor, layoutAtGet, lock, run, mutator>>
    /\ IF hist
       THEN /\ last' = [op |-> "update", dt |-> dt,
                        freed |-> {[slot |-> i, since |-> Unwrap(decayed[i + 1]).since,
                                    lastTtl |-> Unwrap(decayed[i + 1]).lastTtl] : i \in dead}]
            /\ firstSlot' = [s \in Sources |-> None]
            /\ gone' = [s \in Sources |->
                          IF gone[s] = "no" /\ OwnEntryLive(s) /\ surf[s].cache_entry \in dead
                          THEN "evicted" ELSE gone[s]]
       ELSE UNCHANGED <<last, firstSlot, gone>>

\* GeometryCache::update(dt)
Update(dt) ==
    LET decayed == Decay(dt)
        dead == ExpiredIn(decayed)
    IN
    /\ vec' = [k \in 1..Len(vec) |-> IF (k - 1) \in dead THEN None ELSE decayed[k]]
    /\ free' = free \o Ascending(dead)
    /\ UNCHANGED <<surf, edits, hist, editor, layoutAtGet, lock, run, mutator>>
    /\ IF hist
       THEN /\ last' = [op |-> "update", dt |-> dt,
                        freed |-> {[slot |-> i, since |-> Unwrap(decayed[i + 1]).since,
                                    lastTtl |-> Unwrap(decayed[i + 1]).lastTtl] : i \in dead}]
            /\ firstSlot' = [s \in Sources |-> None]
            /\ gone' = [s \in Sources |->
                          IF gone[s] = "no" /\ OwnEntryLive(s) /\ surf[s].cache_entry \in dead
                          THEN "evicted" ELSE gone[s]]
       ELSE UNCHANGED <<last, firstSlot, gone>>

\* clear() written as a loop of free_raw over the slots instead of the
\* store's clear: the slots stay allocated and their indices go to the free
\* stack.
ClearByFreeing ==
    /\ vec' = [k \in 1..Len(vec) |-> None]
    /\ free' = free \o Ascending(Live)
    /\ UNCHANGED <<surf, edits, hist, editor, layoutAtGet, lock, run, mutator>>
    /\ IF hist
       THEN /\ last' = [op |-> "clear"]
            /\ firstSlot' = [s \in Sources |-> None]
            /\ gone' = [s \in Sources |->
                          IF gone[s] = "no" /\ OwnEntryLive(s) THEN "cleared" ELSE gone[s]]
       ELSE UNCHANGED <<last, firstSlot, gone>>

\* GeometryCache::clear()
Clear ==
    /\ vec' = <<>>
    /\ free' = <<>>
    /\ UNCHANGED <<surf, edits, hist, editor, layoutAtGet, lock, run, mutator>>
    /\ IF hist
       THEN /\ last' = [op |-> "clear"]
            /\ firstSlot' = [s \in Sources |-> None]
            /\ gone' = [s \in Sources |->
                          IF gone[s] = "no" /\ OwnEntryLive(s) THEN "cleared" ELSE gone[s]]
       ELSE UNCHANGED <<last, firstSlot, gone>>

\* ------------------------------------------- the surface's other users
\* What an edit of surface s records of itself.
Edited(s) ==
    /\ edits < MaxEdits
    /\ edits' = edits + 1
    /\ last' = IF hist THEN [op |-> "modify", src |-> s] ELSE last
    /\ firstSlot' = IF hist THEN [firstSlot EXCEPT ![s] = None] ELSE firstSlot
    /\ UNCHANGED <<vec, free, hist, editor, gone, layoutAtGet, lock, run, mutator>>

\* A modification of the vertex buffer: new content, counter incremented.
ModifyVertices(s) ==
    /\ surf' = [surf EXCEPT ![s].vmods = @ + 1]
    /\ Edited(s)

\* A modification of the triangle buffer: new content, counter incremented.
ModifyTriangles(s) ==
    /\ surf' = [surf EXCEPT ![s].tmods = @ + 1]
    /\ Edited(s)

\* The vertex layout of the surface changes (its counters need not).
ChangeLayout(s, h) ==
    /\ h # surf[s].layout_hash
    /\ surf' = [surf EXCEPT ![s].layout_hash = h]
    /\ Edited(s)

\* ------------------------------------------------------ specification
InitCache ==
    /\ vec = <<>>
    /\ free = <<>>
    /\ surf \in [Sources -> [cache_entry : {UNASSIGNED_INDEX}, vmods : {0}, tmods : {0},
                             layout_hash : Layouts]]
    /\ edits = 0
    /\ last = [op |-> "new"]
    /\ firstSlot = [s \in Sources |-> None]
    /\ gone = [s \in Sources |-> "no"]
    /\ layoutAtGet = [s \in Sources |-> None]
    /\ lock = [s \in Sources |-> "free"]
    /\ run = [at |-> "idle", s |-> "-", ttl |-> 0, seen |-> <<>>,
              built |-> [vertices |-> <<>>, triangles |-> <<>>]]
    /\ mutator = [at |-> "idle", s |-> "-"]

Next ==
    \/ \E s \in Sources, ttl \in TtlValues : Get(s, ttl)
    \/ \E dt \in DtValues : Update(dt)
    \/ Clear
    \/ \E s \in Sources : ModifyVertices(s)
    \/ \E s \in Sources : ModifyTriangles(s)
    \/ \E s \in Sources, h \in Layouts : ChangeLayout(s, h)

\* The cache alone.
Init == InitCache /\ hist = FALSE /\ editor = [stack |-> "none"]
Spec == Init /\ [][Next]_vars

\* The cache with the history of its calls recorded.
InitHist == InitCache /\ hist = TRUE /\ editor = [stack |-> "none"]
SpecHist == InitHist /\ [][Next]_vars

\* The cache when update is called again and again with dt > 0: an update
\* that would change the store is not put off forever. (Payloads play no
\* part in expiry: the surfaces change their layout only, and a get asks for
\* one tick or for MaxTtl.)
NextLive ==
    \/ \E s \in Sources, ttl \in {1, MaxTtl} : Get(s, ttl)
    \/ \E dt \in DtValues \ {0} : Update(dt)
    \/ Clear
    \/ \E s \in Sources, h \in Layouts : ChangeLayout(s, h)

SpecLive == Init /\ [][NextLive]_vars /\ WF_vars(\E dt \in DtValues \ {0} : Update(dt))

\* The cache when no surface ever changes its layout.
NextFixedLayout ==
    \/ \E s \in Sources, ttl \in TtlValues : Get(s, ttl)
    \/ \E dt \in DtValues : Update(dt)
    \/ Clear
    \/ \E s \in Sources : ModifyVertices(s)
    \/ \E s \in Sources : ModifyTriangles(s)

SpecFixedLayout == Init /\ [][NextFixedLayout]_vars

\* ------------------------------------- get, statement by statement
\* The version of a surface: what a get reads of it besides the payload,
\* whose content the counters name.
Version(s) == <<surf[s].layout_hash, surf[s].vmods, surf[s].tmods>>

\* No get in progress.
Idle == [at |-> "idle", s |-> "-", ttl |-> 0, seen |-> <<>>,
         built |-> [vertices |-> <<>>, triangles |-> <<>>]]

\* The slots with entry e written to slot i.
SetEntry(i, e) == [vec EXCEPT ![i + 1] = Some(e)]

\* The entry the get in progress works on (hit path).
RunEntry == EntryAt(surf[run.s].cache_entry)

\* get entered without data.lock(): the source's lock is neither awaited nor taken.
GetNoLock(s, ttl) ==
    /\ run.at = "idle"
    /\ IsHit(s) \/ free # <<>> \/ len < MaxSlots
    /\ run' = [at |-> "lookup", s |-> s, ttl |-> ttl, seen |-> Version(s), built |-> Idle.built]
    /\ UNCHANGED <<vec, free, surf, edits, hist, editor, last, firstSlot, gone, layoutAtGet,
                   lock, mutator>>

\* get: let data = data.lock(); waits until the source's lock is free and
\* takes it (seen is history: the source's version at that moment).
GetLock(s, ttl) ==
    /\ run.at = "idle"
    /\ lock[s] = "free"
    /\ IsHit(s) \/ free # <<>> \/ len < MaxSlots
    /\ lock' = [lock EXCEPT ![s] = "get"]
    /\ run' = [at |-> "lookup", s |-> s, ttl |-> ttl, seen |-> Version(s), built |-> Idle.built]
    /\ UNCHANGED <<vec, free, surf, edits, hist, editor, last, firstSlot, gone, layoutAtGet, mutator>>

\* get: the lookup of the back-reference and the layout test.
GetLookup ==
    /\ run.at = "lookup"
    /\ IF IsHit(run.s)
       THEN /\ vec' = SetEntry(surf[run.s].cache_entry, Noted(RunEntry, FALSE, FALSE))
            /\ run' = [run EXCEPT !.at = "vertices"]
       ELSE /\ run' = [run EXCEPT !.at = "build"]
            /\ UNCHANGED vec
    /\ UNCHANGED <<free, surf, edits, hist, editor, last, firstSlot, gone, layoutAtGet, lock, mutator>>

\* get, hit path: the vertex test and set_buffer_data.
GetVertices ==
    /\ run.at = "vertices"
    /\ IF VertexDirty(run.s, RunEntry)
       THEN /\ vec' = SetEntry(surf[run.s].cache_entry,
                               Noted([RunEntry EXCEPT !.buffer = set_buffer_data(@, raw_data(run.s))],
                                     TRUE, FALSE))
            /\ run' = [run EXCEPT !.at = "vmark"]
       ELSE /\ run' = [run EXCEPT !.at = "triangles"]
            /\ UNCHANGED vec
    /\ UNCHANGED <<free, surf, edits, hist, editor, last, firstSlot, gone, layoutAtGet, lock, mutator>>

\* get, hit path: entry.vertex_modifications_count = modifications_count().
GetVerticesMark ==
    /\ run.at = "vmark"
    /\ vec' = SetEntry(surf[run.s].cache_entry,
                       [RunEntry EXCEPT !.vertex_modifications_count = surf[run.s].vmods])
    /\ run' = [run EXCEPT !.at = "triangles"]
    /\ UNCHANGED <<free, surf, edits, hist, editor, last, firstSlot, gone, layoutAtGet, lock, mutator>>

\* get, hit path: the triangle test and set_triangles.
GetTriangles ==
    /\ run.at = "triangles"
    /\ IF TrianglesDirty(run.s, RunEntry)
       THEN /\ vec' = SetEntry(surf[run.s].cache_entry,
                               Noted([RunEntry EXCEPT !.buffer = set_triangles(@, triangles_ref(run.s))],
                                     RunEntry.uploaded[1], TRUE))
            /\ run' = [run EXCEPT !.at = "tmark"]
       ELSE /\ run' = [run EXCEPT !.at = "touch"]
            /\ UNCHANGED vec
    /\ UNCHANGED <<free, surf, edits, hist, editor, last, firstSlot, gone, layoutAtGet, lock, mutator>>

\* get, hit path: entry.triangles_modifications_count = modifications_count().
GetTrianglesMark ==
    /\ run.at = "tmark"
    /\ vec' = SetEntry(surf[run.s].cache_entry,
                       [RunEntry EXCEPT !.triangles_modifications_count = surf[run.s].tmods])
    /\ run' = [run EXCEPT !.at = "touch"]
    /\ UNCHANGED <<free, surf, edits, hist, editor, last, firstSlot, gone, layoutAtGet, lock, mutator>>

\* get, hit path: entry.time_to_live = ttl and the return, which drops the lock.
GetTouch ==
    /\ run.at = "touch"
    /\ vec' = SetEntry(surf[run.s].cache_entry, Touch(RunEntry, run.ttl))
    /\ lock' = [lock EXCEPT ![run.s] = "free"]
    /\ run' = Idle
    /\ UNCHANGED <<free, surf, edits, hist, editor, last, firstSlot, gone, layoutAtGet, mutator>>

\* create_geometry_buffer: GeometryBuffer::from_surface_data(..).unwrap().
GetBuild ==
    /\ run.at = "build"
    /\ run' = [run EXCEPT !.at = "spawn", !.built = from_surface_data(run.s)]
    /\ UNCHANGED <<vec, free, surf, edits, hist, editor, last, firstSlot, gone, layoutAtGet,
                   lock, mutator>>

\* create_geometry_buffer: the spawn of the entry (its counters and layout
\* hash are read here), the back-reference set, and get's return.
GetSpawn ==
    /\ run.at = "spawn"
    /\ free # <<>> \/ len < MaxSlots
    /\ vec' = spawn_vec([NewEntry(run.s, run.ttl) EXCEPT !.buffer = run.built])
    /\ free' = spawn_free
    /\ surf' = [surf EXCEPT ![run.s].cache_entry = spawn_index]
    /\ lock' = [lock EXCEPT ![run.s] = "free"]
    /\ run' = Idle
    /\ UNCHANGED <<edits, hist, editor, last, firstSlot, gone, layoutAtGet, mutator>>

\* Another subsystem takes the lock of surface s to edit it.
MutLock(s) ==
    /\ mutator.at = "idle"
    /\ edits < MaxEdits
    /\ lock[s] = "free"
    /\ lock' = [lock EXCEPT ![s] = "mut"]
    /\ mutator' = [at |-> "in", s |-> s]
    /\ UNCHANGED <<vec, free, surf, edits, hist, editor, last, firstSlot, gone, layoutAtGet, run>>

\* It edits the surface while holding the lock.
MutEdit ==
    /\ mutator.at = "in"
    /\ \/ ModifyVertices(mutator.s)
       \/ ModifyTriangles(mutator.s)
       \/ \E h \in Layouts : ChangeLayout(mutator.s, h)

\* It drops the lock.
MutUnlock ==
    /\ mutator.at = "in"
    /\ lock' = [lock EXCEPT ![mutator.s] = "free"]
    /\ mutator' = [at |-> "idle", s |-> "-"]
    /\ UNCHANGED <<vec, free, surf, edits, hist, editor, last, firstSlot, gone, layoutAtGet, run>>

\* update and clear run on the thread that runs get: between gets.
UpdateBetweenGets(dt) == run.at = "idle" /\ Update(dt)
ClearBetweenGets == run.at = "idle" /\ Clear

\* (Lifetimes play no part in the locking: every get asks for MaxTtl.)
NextLock ==
    \/ \E s \in Sources : GetLock(s, MaxTtl)
    \/ GetLookup
    \/ GetVertices
    \/ GetVerticesMark
    \/ GetTriangles
    \/ GetTrianglesMark
    \/ GetTouch
    \/ GetBuild
    \/ GetSpawn
    \/ \E s \in Sources : MutLock(s)
    \/ MutEdit
    \/ MutUnlock
    \/ \E dt \in DtValues : UpdateBetweenGets(dt)
    \/ ClearBetweenGets

\* The cache with get followed statement by statement and a concurrent
\* mutator of the surfaces.
SpecLock == Init /\ [][NextLock]_vars

\* ------------------------------------------------ the editor's commands
\* (src/editor/src/scene/commands/mod.rs)
\* A command group holds at most MaxGroup sub-commands.
MaxGroup == 2
\* The clipboard pastes at most MaxRoots root nodes.
MaxRoots == 2

\* GameSceneContext::scene_content_root: the handle of the scene's root node.
ContentRoot == 0

\* Selection: no selection, or a graph selection of node handles in order.
NoSelection == [kind |-> "None", nodes |-> <<>>]
\* Selection::Graph(GraphSelection::from_list(nodes))
GraphSelection(nodes) == [kind |-> "Graph", nodes |-> nodes]
\* The selections the user makes by hand.
Selections == {NoSelection, GraphSelection(<<ContentRoot>>)}

Range(f) == {f[k] : k \in DOMAIN f}
Reversed(q) == [k \in 1..Len(q) |-> q[Len(q) + 1 - k]]
Indices(q) == [k \in 1..Len(q) |-> k]

\* The scene graph: the handles of its nodes, the parent of each, and the
\* handles kept in reserve for sub-graphs taken out of it.
\* Clipboard::paste: clones the clipboard's roots into the graph, at the
\* handles after the highest one in use; returns the handles of the clones.
paste(clipboard, graph) ==
    LET used == graph.nodes \cup graph.reserved
        top == CHOOSE h \in used : \A o \in used : o <= h
        root_nodes == [k \in 1..clipboard |-> top + k]
    IN [graph |-> [graph EXCEPT !.nodes = @ \cup Range(root_nodes)],
        root_nodes |-> root_nodes]

\* Graph::link_nodes, for each handle of a list.
link_nodes(graph, handles, parent) ==
    [graph EXCEPT !.parent = [h \in Range(handles) |-> parent] @@ @]

\* Graph::take_reserve_sub_graph, for each root of a list: the sub-graphs
\* leave the graph and their handles stay reserved.
take_reserve_sub_graph(graph, roots) ==
    [graph EXCEPT !.nodes = @ \ Range(roots),
                  !.reserved = @ \cup Range(roots),
                  !.parent = [h \in (DOMAIN @) \ Range(roots) |-> @[h]]]

\* Graph::put_sub_graph_back, for each sub-graph of a list: each goes back
\* to its reserved handle.
put_sub_graph_back(graph, subgraphs) ==
    [graph EXCEPT !.nodes = @ \cup Range(subgraphs),
                  !.reserved = @ \ Range(subgraphs)]

\* Graph::forget_sub_graph, for each sub-graph of a list.
forget_sub_graph(graph, subgraphs) ==
    [graph EXCEPT !.reserved = @ \ Range(subgraphs)]

\* PasteCommandState
Undefined == [tag |-> "Undefined"]
NonExecuted == [tag |-> "NonExecuted"]
Reverted(subgraphs, selection) ==
    [tag |-> "Reverted", subgraphs |-> subgraphs, selection |-> selection]
Executed(paste_result, last_selection) ==
    [tag |-> "Executed", paste_result |-> paste_result, last_selection |-> last_selection]

\* PasteCommand::new
PasteCommand(parent) == [kind |-> "Paste", parent |-> parent, state |-> NonExecuted]
\* ChangeSelectionCommand::new
ChangeSelectionCommand(new_selection, old_selection) ==
    [kind |-> "ChangeSelection", new_selection |-> new_selection,
     old_selection |-> old_selection]
\* CommandGroup::from
CommandGroup(commands) == [kind |-> "Group", commands |-> commands]

\* The outcome of a call: the command and the context as the call leaves them.
Outcome(cmd, ctx) == [cmd |-> cmd, ctx |-> ctx]
\* unreachable!(): the call panics.
Panic(cmd, ctx) == Outcome(cmd, [ctx EXCEPT !.panicked = TRUE])

\* PasteCommand::execute, pasting without taking the selection.
PasteExecuteKeepingSelection(cmd, ctx) ==
    IF cmd.state.tag = "NonExecuted" THEN
        LET pasted == paste(ctx.clipboard, ctx.graph)
        IN Outcome([cmd EXCEPT !.state = Executed(pasted.root_nodes, ctx.selection)],
                   [ctx EXCEPT !.graph = link_nodes(pasted.graph, pasted.root_nodes, cmd.parent)])
    ELSE IF cmd.state.tag = "Reverted" THEN
        LET root_nodes == cmd.state.subgraphs
            graph == put_sub_graph_back(ctx.graph, cmd.state.subgraphs)
        IN Outcome([cmd EXCEPT !.state = Executed(root_nodes, ctx.selection)],
                   [ctx EXCEPT !.graph = link_nodes(graph, root_nodes, cmd.parent)])
    ELSE Panic([cmd EXCEPT !.state = Undefined], ctx)

\* PasteCommand::execute
PasteExecute(cmd, ctx) ==
    IF cmd.state.tag = "NonExecuted" THEN
        LET pasted == paste(ctx.clipboard, ctx.graph)
        IN Outcome([cmd EXCEPT !.state = Executed(pasted.root_nodes, ctx.selection)],
                   [ctx EXCEPT !.graph = link_nodes(pasted.graph, pasted.root_nodes, cmd.parent),
                               !.selection = GraphSelection(pasted.root_nodes)])
    ELSE IF cmd.state.tag = "Reverted" THEN
        LET root_nodes == cmd.state.subgraphs
            graph == put_sub_graph_back(ctx.graph, cmd.state.subgraphs)
        IN Outcome([cmd EXCEPT !.state = Executed(root_nodes, ctx.selection)],
                   [ctx EXCEPT !.graph = link_nodes(graph, root_nodes, cmd.parent),
                               !.selection = cmd.state.selection])
    ELSE Panic([cmd EXCEPT !.state = Undefined], ctx)

\* PasteCommand::revert, leaving the state it took.
PasteRevertLeavingUndefined(cmd, ctx) ==
    IF cmd.state.tag = "Executed" THEN
        Outcome([cmd EXCEPT !.state = Undefined],
                [ctx EXCEPT !.graph = take_reserve_sub_graph(@, cmd.state.paste_result),
                            !.selection = cmd.state.last_selection])
    ELSE Outcome([cmd EXCEPT !.state = Undefined], ctx)

\* PasteCommand::revert: the state is taken out (Undefined is left in its
\* place) and a new one is stored only when the one taken was Executed.
PasteRevert(cmd, ctx) ==
    IF cmd.state.tag = "Executed" THEN
        Outcome([cmd EXCEPT !.state = Reverted(cmd.state.paste_result, ctx.selection)],
                [ctx EXCEPT !.graph = take_reserve_sub_graph(@, cmd.state.paste_result),
                            !.selection = cmd.state.last_selection])
    ELSE Outcome([cmd EXCEPT !.state = Undefined], ctx)

\* PasteCommand::finalize
PasteFinalize(cmd, ctx) ==
    IF cmd.state.tag = "Reverted" THEN
        Outcome([cmd EXCEPT !.state = Undefined],
                [ctx EXCEPT !.graph = forget_sub_graph(@, cmd.state.subgraphs)])
    ELSE Outcome([cmd EXCEPT !.state = Undefined], ctx)

\* Message::SelectionChanged { old_selection }, as sent while the context's
\* selection is ctx.selection (selection notes what a receiver finds there).
SelectionChanged(old_selection, ctx) ==
    [old_selection |-> old_selection, selection |-> ctx.selection]
\* MessageSender::send
send(ctx, message) == [ctx EXCEPT !.sent = Append(@, message)]

\* ChangeSelectionCommand::exec without the swap: the stored selections
\* stay where they are.
ChangeSelectionExecNoSwap(cmd, ctx) ==
    IF cmd.new_selection # ctx.selection
    THEN LET replaced == [ctx EXCEPT !.selection = cmd.new_selection]
         IN Outcome(cmd, send(replaced, SelectionChanged(cmd.old_selection, replaced)))
    ELSE Outcome(cmd, ctx)

\* ChangeSelectionCommand::exec telling of every call: the message is sent
\* whether the context's selection is replaced or not.
ChangeSelectionExecAlwaysSending(cmd, ctx) ==
    LET swapped == [cmd EXCEPT !.new_selection = cmd.old_selection,
                               !.old_selection = cmd.new_selection]
        replaced == [ctx EXCEPT !.selection = cmd.new_selection]
    IN Outcome(swapped, send(replaced, SelectionChanged(cmd.old_selection, replaced)))

\* ChangeSelectionCommand::exec (swap included): the stored selections
\* change places, and the context takes the one that was new unless it has
\* it already; a SelectionChanged message is sent after it has taken it.
ChangeSelectionExec(cmd, ctx) ==
    LET swapped == [cmd EXCEPT !.new_selection = cmd.old_selection,
                               !.old_selection = cmd.new_selection]
    IN IF cmd.new_selection # ctx.selection
       THEN LET replaced == [ctx EXCEPT !.selection = cmd.new_selection]
            IN Outcome(swapped, send(replaced, SelectionChanged(cmd.old_selection, replaced)))
       ELSE Outcome(swapped, ctx)

RECURSIVE Call(_, _, _)

\* The loop of a group's call: op on the sub-commands at the indices of
\* order, one after the other; each call made is noted in the trace.
RECURSIVE CallEach(_, _, _, _)
CallEach(op, order, commands, ctx) ==
    IF order = <<>> \/ ctx.panicked THEN [commands |-> commands, ctx |-> ctx]
    ELSE LET i == Head(order)
             r == Call(op, commands[i], [ctx EXCEPT !.trace = Append(@, <<op, i>>)])
         IN CallEach(op, Tail(order), [commands EXCEPT ![i] = r.cmd], r.ctx)

\* CommandGroup::execute
GroupExecute(cmd, ctx) ==
    LET r == CallEach("execute", Indices(cmd.commands), cmd.commands, ctx)
    IN Outcome([cmd EXCEPT !.commands = r.commands], r.ctx)

\* CommandGroup::revert, going through the sub-commands first to last.
GroupRevertInOrder(cmd, ctx) ==
    LET r == CallEach("revert", Indices(cmd.commands), cmd.commands, ctx)
    IN Outcome([cmd EXCEPT !.commands = r.commands], r.ctx)

\* CommandGroup::revert
GroupRevert(cmd, ctx) ==
    LET r == CallEach("revert", Reversed(Indices(cmd.commands)), cmd.commands, ctx)
    IN Outcome([cmd EXCEPT !.commands = r.commands], r.ctx)

\* CommandGroup::finalize: drain(..) hands the sub-commands out first to
\* last and leaves the group empty.
GroupFinalize(cmd, ctx) ==
    LET r == CallEach("finalize", Indices(cmd.commands), cmd.commands, ctx)
    IN Outcome([cmd EXCEPT !.commands = <<>>], r.ctx)

\* A call through GameSceneCommandTrait (finalize does nothing by default).
Call(op, cmd, ctx) ==
    CASE cmd.kind = "Paste" /\ op = "execute" -> PasteExecute(cmd, ctx)
      [] cmd.kind = "Paste" /\ op = "revert" -> PasteRevert(cmd, ctx)
      [] cmd.kind = "Paste" /\ op = "finalize" -> PasteFinalize(cmd, ctx)
      [] cmd.kind = "ChangeSelection" /\ op = "execute" -> ChangeSelectionExec(cmd, ctx)
      [] cmd.kind = "ChangeSelection" /\ op = "revert" -> ChangeSelectionExec(cmd, ctx)
      [] cmd.kind = "ChangeSelection" /\ op = "finalize" -> Outcome(cmd, ctx)
      [] cmd.kind = "Group" /\ op = "execute" -> GroupExecute(cmd, ctx)
      [] cmd.kind = "Group" /\ op = "revert" -> GroupRevert(cmd, ctx)
      [] cmd.kind = "Group" /\ op = "finalize" -> GroupFinalize(cmd, ctx)

\* Where a call takes the command on the undo stack's protocol: execute
\* first, then revert and execute in turn, finalize once at the end;
\* "broken" once a call was made out of turn.
StackAfter(op, stack) ==
    CASE op = "execute" /\ stack \in {"fresh", "reverted"} -> "executed"
      [] op = "revert" /\ stack = "executed" -> "reverted"
      [] op = "finalize" /\ stack \in {"executed", "reverted"} -> "finalized"
      [] OTHER -> "broken"

\* The editor after it has called op on its command; the trace and the
\* messages are those of the most recent call.
AfterCall(op) ==
    LET r == Call(op, editor.command, [editor.ctx EXCEPT !.trace = <<>>, !.sent = <<>>])
    IN [editor EXCEPT !.command = r.cmd, !.ctx = r.ctx, !.op = op,
                      !.stack = StackAfter(op, editor.stack)]

ExecuteCommand ==
    /\ ~editor.ctx.panicked
    /\ editor' = AfterCall("execute")
    /\ UNCHANGED <<vec, free, surf, edits, hist, last, firstSlot, gone, layoutAtGet,
                   lock, run, mutator>>

RevertCommand ==
    /\ ~editor.ctx.panicked
    /\ editor' = AfterCall("revert")
    /\ UNCHANGED <<vec, free, surf, edits, hist, last, firstSlot, gone, layoutAtGet,
                   lock, run, mutator>>

FinalizeCommand ==
    /\ ~editor.ctx.panicked
    /\ editor' = AfterCall("finalize")
    /\ UNCHANGED <<vec, free, surf, edits, hist, last, firstSlot, gone, layoutAtGet,
                   lock, run, mutator>>

\* The sub-commands a group is built of.
SubCommands ==
    {PasteCommand(ContentRoot)}
        \cup {ChangeSelectionCommand(n, o) : n \in Selections, o \in Selections}

\* CommandGroup::push, while the group is being built.
Push(command) ==
    /\ editor.command.kind = "Group"
    /\ editor.stack = "fresh"
    /\ Len(editor.command.commands) < MaxGroup
    /\ editor' = [editor EXCEPT !.command.commands = Append(@, command)]
    /\ UNCHANGED <<vec, free, surf, edits, hist, last, firstSlot, gone, layoutAtGet,
                   lock, run, mutator>>

\* The editor with a scene of the content root alone, a user interface of
\* its root widget alone, and a new command (made keeps the command as it
\* was constructed).
NewEditor(selection, clipboard, command) ==
    [command |-> command,
     ctx |-> [selection |-> selection,
              graph |-> [nodes |-> {ContentRoot}, reserved |-> {},
                         parent |-> [h \in {} |-> ContentRoot]],
              clipboard |-> clipboard,
              sent |-> <<>>, trace |-> <<>>, panicked |-> FALSE],
     ui |-> [nodes |-> {ContentRoot}, parent |-> [h \in {} |-> ContentRoot]],
     op |-> "new",
     stack |-> "fresh",
     made |-> command]

NextEditor ==
    \/ ExecuteCommand
    \/ RevertCommand
    \/ FinalizeCommand
    \/ \E c \in SubCommands : Push(c)

\* The editor alone: the cache is never called.
InitEditor ==
    /\ InitCache
    /\ hist = FALSE
    /\ \A s \in Sources : surf[s].layout_hash = 0
    /\ \E selection \in Selections, clipboard \in 0..MaxRoots,
          command \in SubCommands \cup {CommandGroup(<<>>)} :
            editor = NewEditor(selection, clipboard, command)
SpecEditor == InitEditor /\ [][NextEditor]_vars

\* ------------------------------------------ selections and deletion
\* (src/editor/src/ui_scene/selection.rs, selection_to_delete and
\* make_delete_selection_command of src/editor/src/scene/commands/mod.rs)
\* The scene graph and the user interface have MaxNodes nodes below the root.
MaxNodes == 3

\* Selection::Ui(UiSelection { widgets })
UiSelection(widgets) == [kind |-> "Ui", nodes |-> widgets]

\* iter().position(..): the index of the first x in q, 0 when there is none.
Position(q, x) ==
    IF \E k \in 1..Len(q) : q[k] = x
    THEN CHOOSE k \in 1..Len(q) : q[k] = x /\ \A j \in 1..(k - 1) : q[j] # x
    ELSE 0
\* Vec::remove
Remove(q, k) == [j \in 1..(Len(q) - 1) |-> IF j < k THEN q[j] ELSE q[j + 1]]

\* UiSelection::single_or_empty (a none handle is not among the handles drawn)
single_or_empty(node) == <<node>>
\* UiSelection::insert_or_exclude
insert_or_exclude(widgets, handle) ==
    IF Position(widgets, handle) # 0 THEN Remove(widgets, Position(widgets, handle))
    ELSE Append(widgets, handle)

\* ui.node(other).children()
children(other, tree) == {c \in DOMAIN tree.parent : tree.parent[c] = other}

\* is_descendant_of (helper of root_widgets)
RECURSIVE is_descendant_of(_, _, _)
is_descendant_of(handle, other, tree) ==
    \E child \in children(other, tree) :
        child = handle \/ is_descendant_of(handle, child, tree)

\* The loop of root_widgets over the widgets still to visit: a widget is
\* pushed unless it is a descendant of some selected widget.
RECURSIVE push_roots(_, _, _)
push_roots(rest, widgets, ui) ==
    IF rest = <<>> THEN <<>>
    ELSE LET node == Head(rest)
             descendant == \E k \in 1..Len(widgets) : is_descendant_of(node, widgets[k], ui)
         IN (IF ~descendant THEN <<node>> ELSE <<>>) \o push_roots(Tail(rest), widgets, ui)

\* UiSelection::root_widgets, keeping every selected widget.
root_widgets_all(widgets, ui) == widgets

\* UiSelection::root_widgets
root_widgets(widgets, ui) == push_roots(widgets, widgets, ui)

\* GraphSelection::root_nodes: the same walk over the scene graph.
root_nodes(nodes, graph) == push_roots(nodes, nodes, graph)

\* selection_to_delete, keeping the content root.
selection_to_delete_keeping_root(editor_selection, scene_content_root) ==
    IF editor_selection.kind = "Graph" THEN editor_selection.nodes ELSE <<>>

\* selection_to_delete: the nodes of the graph selection to delete.
selection_to_delete(editor_selection, scene_content_root) ==
    LET selection == IF editor_selection.kind = "Graph" THEN editor_selection.nodes ELSE <<>>
        root_position == Position(selection, scene_content_root)
    IN IF root_position # 0 THEN Remove(selection, root_position) ELSE selection

\* DeleteSubGraphCommand::new, DeleteWidgetsSubGraphCommand::new
DeleteSubGraphCommand(sub_graph_root) ==
    [kind |-> "DeleteSubGraph", sub_graph_root |-> sub_graph_root]
DeleteWidgetsSubGraphCommand(sub_graph_root) ==
    [kind |-> "DeleteWidgetsSubGraph", sub_graph_root |-> sub_graph_root]
\* ChangeUiSelectionCommand::new
ChangeUiSelectionCommand(new_selection, old_selection) ==
    [kind |-> "ChangeUiSelection", new_selection |-> new_selection,
     old_selection |-> old_selection]

\* make_delete_selection_command
make_delete_selection_command(editor_selection, scene_content_root, graph) ==
    LET selection == selection_to_delete(editor_selection, scene_content_root)
        roots == root_nodes(selection, graph)
    IN CommandGroup(<<ChangeSelectionCommand(NoSelection, GraphSelection(selection))>>
                        \o [k \in 1..Len(roots) |-> DeleteSubGraphCommand(roots[k])])

\* UiSelection::make_deletion_command
make_deletion_command(widgets, ui, old_selection) ==
    LET roots == root_widgets(widgets, ui)
    IN CommandGroup(<<ChangeUiSelectionCommand(NoSelection, old_selection)>>
                        \o [k \in 1..Len(roots) |-> DeleteWidgetsSubGraphCommand(roots[k])])

\* The user selects one node of the scene, or one widget, alone.
Pick(kind, handle) ==
    /\ editor' = [editor EXCEPT !.ctx.selection = [kind |-> kind, nodes |-> single_or_empty(handle)],
                                !.command = CommandGroup(<<>>), !.op = "select"]
    /\ UNCHANGED <<vec, free, surf, edits, hist, last, firstSlot, gone, layoutAtGet,
                   lock, run, mutator>>

\* The user adds a node to the selection, or takes it out when it is in.
Toggle(handle) ==
    /\ editor.ctx.selection.kind \in {"Graph", "Ui"}
    /\ editor' = [editor EXCEPT !.ctx.selection.nodes = insert_or_exclude(@, handle),
                                !.command = CommandGroup(<<>>), !.op = "select"]
    /\ UNCHANGED <<vec, free, surf, edits, hist, last, firstSlot, gone, layoutAtGet,
                   lock, run, mutator>>

\* The editor builds the command that deletes the selection in the scene.
MakeDeleteSelectionCommand ==
    /\ editor.op # "make_delete_selection_command"
    /\ editor' = [editor EXCEPT
                    !.command = make_delete_selection_command(editor.ctx.selection, ContentRoot,
                                                              editor.ctx.graph),
                    !.op = "make_delete_selection_command"]
    /\ UNCHANGED <<vec, free, surf, edits, hist, last, firstSlot, gone, layoutAtGet,
                   lock, run, mutator>>

\* The editor builds the command that deletes the selected widgets.
MakeDeletionCommand ==
    /\ editor.ctx.selection.kind = "Ui"
    /\ editor.op # "make_deletion_command"
    /\ editor' = [editor EXCEPT
                    !.command = make_deletion_command(editor.ctx.selection.nodes, editor.ui,
                                                      editor.ctx.selection),
                    !.op = "make_deletion_command"]
    /\ UNCHANGED <<vec, free, surf, edits, hist, last, firstSlot, gone, layoutAtGet,
                   lock, run, mutator>>

\* The trees of MaxNodes nodes below the root (a node's parent has a lower handle).
Trees ==
    {[nodes |-> 0..MaxNodes, reserved |-> {}, parent |-> p] :
        p \in {q \in [1..MaxNodes -> 0..MaxNodes] : \A h \in 1..MaxNodes : q[h] < h}}

NextSelection ==
    \/ \E kind \in {"Graph", "Ui"}, h \in 0..MaxNodes : Pick(kind, h)
    \/ \E h \in 0..MaxNodes : Toggle(h)
    \/ MakeDeleteSelectionCommand
    \/ MakeDeletionCommand

\* The editor with a scene and a user interface of one shape, nothing selected.
InitSelection ==
    /\ InitCache
    /\ hist = FALSE
    /\ \A s \in Sources : surf[s].layout_hash = 0
    /\ \E tree \in Trees :
          editor = [NewEditor(NoSelection, 0, CommandGroup(<<>>)) EXCEPT
                        !.ctx.graph = tree, !.ui = tree]
SpecSelection == InitSelection /\ [][NextSelection]_vars

\* ------------------------------------------------------------ claims
\* The slot and the source of the get that has just returned.
GetReturned == last.op = "get"
ReturnedEntry == EntryAt(last.slot)

\* C1: whenever get(S, ttl) returns, the returned buffer holds S's current
\* vertex payload and S's current triangle list.
C1_ReturnedBufferIsCurrent ==
    GetReturned =>
        /\ ReturnedEntry.buffer.vertices = raw_data(last.src)
        /\ ReturnedEntry.buffer.triangles = triangles_ref(last.src)

\* C2: for a source whose counters and layout hash do not change, with no
\* update or clear in between, every get after the first returns the buffer
\* of the slot the first returned, spawns nothing and uploads nothing.
C2_UnchangedSourceNoRebuild ==
    [][(last'.op = "get" /\ firstSlot[last'.src] # None) =>
         /\ last'.slot = Unwrap(firstSlot[last'.src])
         /\ last'.hit
         /\ ~last'.vup
         /\ ~last'.tup]_vars

\* C3: if S's back-reference names a live slot, the entry there was made by
\* a miss on S itself, unless S's layout hash differs from the entry's.
C3_BackReferenceNamesOwnEntry ==
    \A s \in Sources :
        (get_raw(surf[s].cache_entry) # None
            /\ Unwrap(get_raw(surf[s].cache_entry)).layout_hash = surf[s].layout_hash)
        => Unwrap(get_raw(surf[s].cache_entry)).madeFor = s

\* C4: get(A) never returns the buffer of an entry that was made for another
\* source B.
C4_IdentityKeyed == GetReturned => ReturnedEntry.madeFor = last.src

\* C5: after update has evicted S's entry, the next get on S takes the miss
\* path, whatever gets on other sources happened in between.
C5_MissAfterEviction ==
    [][(last'.op = "get" /\ gone[last'.src] = "evicted") => ~last'.hit]_vars

\* C6: after clear, the next get on a source that was cached before the
\* clear takes the miss path, also when gets on other sources have
\* repopulated the store in between.
C6_MissAfterClear ==
    [][(last'.op = "get" /\ gone[last'.src] = "cleared") => ~last'.hit]_vars

\* A step of update(dt).
UpdateStep(dt) == Update(dt)

\* C7: when update returns, no entry is left in the store whose cumulative
\* dt since its last touch has reached the lifetime that touch requested.
C7_EvictedWhenDue ==
    [][\/ \A i \in LiveOf(vec') :
             Unwrap(vec'[i + 1]).since < Unwrap(vec'[i + 1]).lastTtl
       \/ ~(\E dt \in DtValues : UpdateStep(dt))]_vars

\* C7 witness: the entry a source's back-reference names has been evicted by
\* update (its index is on the free stack) while another entry was kept.
C7_Witness ==
    /\ \E s \in Sources : \E k \in 1..Len(free) : free[k] = surf[s].cache_entry
    /\ Live # {}

\* C8: update never evicts an entry while the cumulative dt since its most
\* recent get is below the lifetime that get requested: the entry stays in
\* its slot, with remaining lifetime the requested one minus that dt.
C8_KeptWhileNotDue ==
    [][\A dt \in DtValues :
         \/ \A i \in Live :
                EntryAt(i).since + dt < EntryAt(i).lastTtl =>
                    /\ i \in LiveOf(vec')
                    /\ Unwrap(vec'[i + 1]).time_to_live
                           = EntryAt(i).lastTtl - (EntryAt(i).since + dt)
                    /\ Unwrap(vec'[i + 1]).buffer = EntryAt(i).buffer
         \/ ~UpdateStep(dt)]_vars

\* C8 witness: update has decayed an entry since its most recent get and
\* kept it, with the remaining lifetime the claim states.
C8_Witness ==
    \E i \in Live :
        /\ EntryAt(i).since > 0
        /\ EntryAt(i).since < EntryAt(i).lastTtl
        /\ EntryAt(i).time_to_live = EntryAt(i).lastTtl - EntryAt(i).since

\* The live entries made for source s.
EntriesMadeFor(s) == {i \in Live : EntryAt(i).madeFor = s}

\* C9: the store holds at most one live entry made for each source.
C9_OneEntryPerSource == \A s \in Sources : Cardinality(EntriesMadeFor(s)) <= 1

\* C10: if S's layout hash differs from the one at the previous get on S,
\* get takes the miss path: a new entry with S's current layout hash and
\* counters is spawned and S's back-reference names its slot.
C10_LayoutChangeForcesMiss ==
    [][(/\ last'.op = "get"
        /\ layoutAtGet[last'.src] # None
        /\ layoutAtGet[last'.src] # Some(surf[last'.src].layout_hash)) =>
         /\ ~last'.hit
         /\ surf'[last'.src].cache_entry = last'.slot
         /\ Unwrap(vec'[last'.slot + 1]).madeFor = last'.src
         /\ Unwrap(vec'[last'.slot + 1]).layout_hash = surf[last'.src].layout_hash]_vars

\* A step of get(s, ttl).
GetStep(s, ttl) == Get(s, ttl)

\* The entry a hit of get(s, ..) works on, before and after the step.
HitEntry(s) == EntryAt(surf[s].cache_entry)
HitEntryAfter(s) == Unwrap(vec'[surf[s].cache_entry + 1])

\* C11: a get that hits an entry whose vertex watermark differs from the
\* source's vertex counter while the triangle watermark equals the triangle
\* counter uploads the whole vertex payload, sets the vertex watermark to the
\* source's vertex counter, leaves the triangle watermark and the triangle
\* list alone, and keeps the entry in its slot.
C11_VertexOnlyUpload ==
    [][\A s \in Sources :
         \/ ~(IsHit(s) /\ VertexDirty(s, HitEntry(s)) /\ ~TrianglesDirty(s, HitEntry(s)))
         \/ /\ surf'[s].cache_entry = surf[s].cache_entry
            /\ surf[s].cache_entry \in LiveOf(vec')
            /\ HitEntryAfter(s).buffer.vertices = raw_data(s)
            /\ HitEntryAfter(s).vertex_modifications_count = surf[s].vmods
            /\ HitEntryAfter(s).buffer.triangles = HitEntry(s).buffer.triangles
            /\ HitEntryAfter(s).triangles_modifications_count =
                   HitEntry(s).triangles_modifications_count
            /\ HitEntryAfter(s).uploaded = <<TRUE, FALSE>>
         \/ ~(\E ttl \in TtlValues : GetStep(s, ttl))]_vars

\* C11 happens: the most recent get on some entry uploaded its vertices only.
C11_Witness ==
    \E i \in Live : /\ EntryAt(i).uploaded = <<TRUE, FALSE>>
                    /\ EntryAt(i).since = 0
                    /\ EntryAt(i).buffer.vertices[2] > 0
\* C12: a get that hits an entry whose triangle watermark differs from the
\* source's triangle counter while the vertex watermark equals the vertex
\* counter replaces the triangle list of the buffer, sets the triangle
\* watermark to the source's triangle counter, and leaves the vertex
\* watermark and the vertex payload of the buffer alone.
C12_TrianglesOnlyUpload ==
    [][\A s \in Sources :
         \/ ~(IsHit(s) /\ TrianglesDirty(s, HitEntry(s)) /\ ~VertexDirty(s, HitEntry(s)))
         \/ /\ surf[s].cache_entry \in LiveOf(vec')
            /\ HitEntryAfter(s).buffer.triangles = triangles_ref(s)
            /\ HitEntryAfter(s).triangles_modifications_count = surf[s].tmods
            /\ HitEntryAfter(s).buffer.vertices = HitEntry(s).buffer.vertices
            /\ HitEntryAfter(s).vertex_modifications_count =
                   HitEntry(s).vertex_modifications_count
            /\ HitEntryAfter(s).uploaded = <<FALSE, TRUE>>
         \/ ~(\E ttl \in TtlValues : GetStep(s, ttl))]_vars

\* C12 happens: the most recent get on some entry replaced its triangles only.
C12_Witness ==
    \E i \in Live : /\ EntryAt(i).uploaded = <<FALSE, TRUE>>
                    /\ EntryAt(i).since = 0
                    /\ EntryAt(i).buffer.triangles[2] > 0
\* Index i names a live slot of the slot sequence v.
LiveIn(v, i) == i >= 0 /\ i < Len(v) /\ v[i + 1] # None

\* The entry S's back-reference names after a step.
NamedAfter(s) == Unwrap(vec'[surf'[s].cache_entry + 1])

\* A quick necessary condition of a get(s, ttl) step, tested before the step
\* itself: no edit is counted, and the entry named afterwards, if any, was
\* last requested with ttl just now.
MayBeGetStep(s, ttl) ==
    /\ edits' = edits
    /\ LiveIn(vec', surf'[s].cache_entry) =>
           (NamedAfter(s).lastTtl = ttl /\ NamedAfter(s).since = 0)

\* C13: immediately after every get(S, ttl), hit or miss, S's back-reference
\* names a live slot whose entry has S's current layout hash, vertex counter
\* and triangle counter as its layout hash and watermarks and ttl as its
\* remaining lifetime (the buffer returned is that slot's); on a miss the
\* back-reference is the newly spawned slot, on a hit it is unchanged.
C13_BackReferenceAfterGet ==
    [][\A s \in Sources, ttl \in TtlValues :
         \/ ~MayBeGetStep(s, ttl)
         \/ /\ LiveIn(vec', surf'[s].cache_entry)
            /\ NamedAfter(s).layout_hash = surf'[s].layout_hash
            /\ NamedAfter(s).vertex_modifications_count = surf'[s].vmods
            /\ NamedAfter(s).triangles_modifications_count = surf'[s].tmods
            /\ NamedAfter(s).time_to_live = ttl
            /\ IF IsHit(s)
               THEN surf'[s].cache_entry = surf[s].cache_entry
               ELSE /\ surf'[s].cache_entry = spawn_index
                    /\ ~LiveIn(vec, spawn_index)
                    /\ NamedAfter(s).buffer = from_surface_data(s)
         \/ ~GetStep(s, ttl)]_vars

\* C13 happens: a get of a source with a modified payload has just returned
\* (its entry is fresh and carries the counters as watermarks).
C13_Witness ==
    \E s \in Sources :
        /\ surf[s].cache_entry \in Live
        /\ HitEntry(s).since = 0
        /\ HitEntry(s).time_to_live = HitEntry(s).lastTtl
        /\ HitEntry(s).layout_hash = surf[s].layout_hash
        /\ HitEntry(s).vertex_modifications_count = surf[s].vmods
        /\ HitEntry(s).triangles_modifications_count = surf[s].tmods
        /\ surf[s].vmods + surf[s].tmods > 0
        /\ HitEntry(s).buffer = from_surface_data(s)
\* C14: on every get hit the entry's remaining lifetime becomes exactly the
\* lifetime that call requested, whatever it was before (the last request
\* wins, no maximum or minimum is taken): an entry on which no time has
\* elapsed since the most recent get of it (since = 0) has the lifetime that
\* get requested (lastTtl).
C14_LastRequestWins ==
    \A i \in Live : EntryAt(i).since = 0 => EntryAt(i).time_to_live = EntryAt(i).lastTtl

\* C14 happens: the most recent get on some entry was a hit (it uploaded
\* something) and it requested, and left, the lifetime 0.
C14_Witness ==
    \E i \in Live : /\ EntryAt(i).uploaded # <<FALSE, FALSE>>
                    /\ EntryAt(i).since = 0
                    /\ EntryAt(i).lastTtl = 0
                    /\ EntryAt(i).time_to_live = 0
\* What update(dt) must leave in a slot that held o.
AfterUpdate(o, dt) ==
    IF o = None THEN None
    ELSE IF Unwrap(o).time_to_live - dt > 0
         THEN Some([Unwrap(o) EXCEPT !.time_to_live = @ - dt, !.since = @ + dt])
         ELSE None

\* C15: update(dt) decrements the remaining lifetime of every live entry by
\* exactly dt and then frees exactly the entries whose lifetime is then <= 0:
\* afterwards no live entry has a lifetime <= 0, and every entry whose
\* lifetime minus dt is > 0 is live in the same slot, its buffer, watermarks
\* and layout hash unchanged.
C15_UpdateDecrementsAndFrees ==
    [][\A dt \in DtValues :
         \/ /\ Len(vec') = Len(vec)
            /\ \A k \in 1..Len(vec) : vec'[k] = AfterUpdate(vec[k], dt)
            /\ \A k \in 1..Len(vec') : vec'[k] # None => Unwrap(vec'[k]).time_to_live > 0
         \/ ~UpdateStep(dt)]_vars

\* C15 happens: an update has freed a slot and an update has let a decayed
\* entry live on.
C15_Witness ==
    /\ free # <<>>
    /\ \E i \in Live : /\ EntryAt(i).since > 0
                       /\ EntryAt(i).time_to_live > 0
                       /\ EntryAt(i).time_to_live < EntryAt(i).lastTtl
\* A step of clear().
ClearStep == Clear

\* C16: after clear() the store holds no live entry and len() is 0: the
\* lookup of any index, every index live before the clear and every index a
\* back-reference holds included, returns none, and the free list is reset,
\* so that the next spawn hands out index 0.
C16_ClearEmptiesStore ==
    [][\/ /\ len' = 0
          /\ free' = <<>>
          /\ \A i \in Live \cup {surf[s].cache_entry : s \in Sources} \cup 0..MaxSlots :
                 get_raw(i)' = None
          /\ spawn_index' = 0
       \/ ~ClearStep]_vars

\* C16 happens: the store is empty although a source was cached before.
C16_Witness ==
    /\ len = 0
    /\ free = <<>>
    /\ \A s \in Sources : surf[s].cache_entry # UNASSIGNED_INDEX
    /\ \E s \in Sources : surf[s].cache_entry > 0
\* C17: an index freed by an eviction or by a clear is not handed out again
\* by spawn while the back-reference of the source whose entry occupied it
\* still holds it: a miss of one source never spawns into the index that
\* another source, whose own entry was freed since its last get, still holds.
C17_FreedIndexNotReusedWhileHeld ==
    [][(last'.op = "get" /\ ~last'.hit) =>
         \A s \in Sources \ {last'.src} :
             gone[s] # "no" => surf[s].cache_entry # last'.slot]_vars
\* C18: get is total. Whatever the source's back-reference holds (the unset
\* sentinel, an index beyond len, the index of a freed slot, the index of a
\* live slot with an equal or a different layout hash), the lookup of an
\* index that is out of range or freed yields none and get takes the miss
\* path, and the lookup get unwraps for the buffer it returns (on the hit
\* path and on the miss path) finds a live slot.
C18_GetIsTotal ==
    \A s \in Sources :
        /\ ~LiveIn(vec, surf[s].cache_entry) =>
               (get_mut(surf[s].cache_entry) = None /\ ~IsHit(s))
        /\ \A ttl \in TtlValues : LiveIn(SlotsAfterGet(s, ttl), UnwrappedIndex(s))

\* C18 happens: one back-reference holds an index beyond len, another the
\* index of a freed slot.
C18_Witness ==
    /\ \E s \in Sources : /\ surf[s].cache_entry # UNASSIGNED_INDEX
                          /\ surf[s].cache_entry >= len
    /\ \E s \in Sources : /\ surf[s].cache_entry < len
                          /\ vec[surf[s].cache_entry + 1] = None
\* C19: get holds the source's lock from before its first read of the source
\* until it returns, so that no mutator of the source interleaves with it:
\* while a get is in progress the source's layout hash and counters are those
\* it had when the get began and the mutator does not hold that source's
\* lock, and between gets every entry's watermarks are the counters of the
\* payload its buffer was uploaded or built from.
C19_GetSeesOneVersion ==
    /\ run.at # "idle" =>
           /\ lock[run.s] = "get"
           /\ Version(run.s) = run.seen
           /\ ~(mutator.at = "in" /\ mutator.s = run.s)
    /\ run.at = "idle" =>
           \A i \in Live :
               /\ EntryAt(i).buffer.vertices[2] = EntryAt(i).vertex_modifications_count
               /\ EntryAt(i).buffer.triangles[2] = EntryAt(i).triangles_modifications_count

\* C19 happens: a get has built a buffer from a source's payload and not yet
\* read the counters it records, while the mutator, free to edit, finds the
\* source's lock taken.
C19_Witness ==
    /\ run.at = "spawn"
    /\ run.built = from_surface_data(run.s)
    /\ lock[run.s] = "get"
    /\ mutator.at = "idle"
    /\ edits < MaxEdits
\* C20: update and clear never modify the back-reference of any source: after
\* an eviction or a clear every source's cell holds the index it held before
\* (a stale index is left in place).
C20_CellsLeftInPlace ==
    [][\/ \A s \in Sources : surf'[s].cache_entry = surf[s].cache_entry
       \/ ~(ClearStep \/ \E dt \in DtValues : UpdateStep(dt))]_vars

\* C20 happens: slots were freed (the store is not empty, so by update) and
\* every source still holds the index of a slot that is not live.
C20_Witness ==
    /\ len > 0
    /\ Live = {}
    /\ \A s \in Sources : /\ surf[s].cache_entry # UNASSIGNED_INDEX
                          /\ ~LiveIn(vec, surf[s].cache_entry)
\* C21: slot indices are stable. In every step, an entry that is live stays
\* at its index (made for the same source, with the same layout hash) unless
\* its slot is freed or the store cleared; and an entry that appears in a slot
\* that was not live is newly built there by a miss, with no slot emptied and
\* no other slot changed in the same step: none is moved or replaced.
C21_IndicesAreStable ==
    [][/\ \A i \in Live :
            LiveIn(vec', i) =>
                /\ Unwrap(vec'[i + 1]).madeFor = EntryAt(i).madeFor
                /\ Unwrap(vec'[i + 1]).layout_hash = EntryAt(i).layout_hash
       /\ \A j \in LiveOf(vec') \ Live :
            /\ Unwrap(vec'[j + 1]).since = 0
            /\ Unwrap(vec'[j + 1]).buffer = from_surface_data(Unwrap(vec'[j + 1]).madeFor)
            /\ \A i \in Live : LiveIn(vec', i) /\ vec'[i + 1] = vec[i + 1]]_vars

\* C21 happens: an entry has stayed at index 1 through an update that freed
\* the slot below it.
C21_Witness ==
    /\ len = 2
    /\ vec[1] = None
    /\ vec[2] # None
    /\ EntryAt(1).since > 0
\* C22: len() is the high-water mark of allocated slots. Every freed index is
\* below len() and names a slot that is not live, and every slot that is not
\* live is on the free stack; no step but clear decreases len(); a spawn pops
\* the top of the free stack and leaves len() unchanged whenever the stack is
\* not empty; and after an update no live entry is expired.
C22_LenIsHighWaterMark ==
    [][/\ \A k \in 1..Len(free) : free[k] < len /\ vec[free[k] + 1] = None
       /\ \A i \in 0..(len - 1) : vec[i + 1] = None => \E k \in 1..Len(free) : free[k] = i
       /\ Len(vec') >= Len(vec) \/ ClearStep
       /\ \A j \in LiveOf(vec') \ Live :
              IF free # <<>>
              THEN j = free[Len(free)] /\ Len(vec') = Len(vec)
              ELSE j = len /\ Len(vec') = len + 1
       /\ \/ \A i \in LiveOf(vec') : Unwrap(vec'[i + 1]).time_to_live > 0
          \/ ~(\E dt \in DtValues : UpdateStep(dt))]_vars

\* C22 happens: both slots of the store were freed, slot 1 before slot 0, and
\* len() still counts them.
C22_Witness ==
    /\ len = 2
    /\ free = <<1, 0>>
\* A get hits the entry in slot i.
HitOn(i) ==
    \E s \in Sources :
        /\ surf[s].cache_entry = i
        /\ IsHit(s)
        /\ \E ttl \in TtlValues : GetStep(s, ttl)

C24_GetTouchesOneSlot ==
    [][\A s \in Sources :
         \/ /\ \A o \in Sources \ {s} : surf'[o] = surf[o]
            /\ surf' = [surf EXCEPT ![s].cache_entry = surf'[s].cache_entry]
            /\ Len(vec') >= Len(vec)
            /\ \A i \in 0..(len - 1) :
                   i # UnwrappedIndex(s) => vec'[i + 1] = vec[i + 1]
            /\ \A i \in len..(Len(vec') - 1) : i = UnwrappedIndex(s)
         \/ ~(\E ttl \in TtlValues : GetStep(s, ttl))]_vars

\* C24 happens: one entry has just been served by a get while the entry of
\* another source, named by that source's back-reference, has decayed
\* untouched.
C24_Witness ==
    \E i \in Live, j \in Live :
        /\ EntryAt(i).since = 0
        /\ EntryAt(j).since > 0
        /\ EntryAt(j).madeFor # EntryAt(i).madeFor
        /\ surf[EntryAt(j).madeFor].cache_entry = j
        /\ surf[EntryAt(i).madeFor].cache_entry = i
\* The sources that have been passed to get.
Cached == {s \in Sources : surf[s].cache_entry # UNASSIGNED_INDEX}

\* C25: if no source's layout hash ever changes, the store never holds more
\* live entries than there are sources that have been passed to get: every
\* live entry is named by the back-reference of the source it was made for.
C25_EntriesBoundedBySources ==
    /\ Cardinality(Live) <= Cardinality(Cached)
    /\ \A i \in Live : surf[EntryAt(i).madeFor].cache_entry = i

\* C25 happens: every source was passed to get, as many entries are live,
\* and a get of a source with a modified payload has hit its entry and
\* uploaded into it instead of spawning another.
C25_Witness ==
    /\ Cached = Sources
    /\ Cardinality(Live) = Cardinality(Cached)
    /\ \E i \in Live : EntryAt(i).uploaded # <<FALSE, FALSE>>
\* C26: lifetime edge cases. A get that asks for the lifetime 0 still creates
\* or refreshes the entry, whose lifetime is then 0; an entry whose lifetime
\* is <= 0 is freed by the next update, whatever dt, 0 included; and
\* update(0) leaves every entry whose lifetime is > 0 live and unchanged.
C26_LifetimeEdgeCases ==
    [][/\ \A s \in Sources :
            \/ /\ LiveIn(vec', surf'[s].cache_entry)
               /\ NamedAfter(s).time_to_live = 0
               /\ NamedAfter(s).layout_hash = surf[s].layout_hash
            \/ ~GetStep(s, 0)
       /\ \A i \in Live : EntryAt(i).time_to_live <= 0 =>
              \A dt \in DtValues : i \in ExpiredIn(Decay(dt))
       /\ \/ \A i \in Live : EntryAt(i).time_to_live <= 0 => ~LiveIn(vec', i)
          \/ ~(\E dt \in DtValues : UpdateStep(dt))
       /\ \/ \A i \in Live : EntryAt(i).time_to_live > 0 =>
                  (LiveIn(vec', i) /\ vec'[i + 1] = vec[i + 1])
          \/ ~UpdateStep(0)]_vars

\* C26 happens: a get has just asked for the lifetime 0 and its entry is
\* live, beside a slot that an update has freed.
C26_Witness ==
    /\ free # <<>>
    /\ \E i \in Live : /\ EntryAt(i).lastTtl = 0
                       /\ EntryAt(i).since = 0
                       /\ EntryAt(i).time_to_live = 0

\* The calls a command may be given.
Ops == {"execute", "revert", "finalize"}
\* This step is a call of op on the editor's command, and the call returns.
Returns(op) == editor' = AfterCall(op) /\ ~editor'.ctx.panicked
\* The sub-commands of the editor's command group before the step.
Subs == editor.command.commands

\* C27: a command group's execute calls execute on its sub-commands first to
\* last, its revert calls revert on them last to first, each sub-command once
\* in a call; its finalize calls finalize on each sub-command once and leaves
\* the group empty.
C27_GroupOrder ==
    [][editor.command.kind = "Group" =>
        /\ Returns("execute") =>
              /\ editor'.ctx.trace = [k \in 1..Len(Subs) |-> <<"execute", k>>]
              /\ Len(editor'.command.commands) = Len(Subs)
        /\ Returns("revert") =>
              /\ editor'.ctx.trace = [k \in 1..Len(Subs) |-> <<"revert", Len(Subs) + 1 - k>>]
              /\ Len(editor'.command.commands) = Len(Subs)
        /\ Returns("finalize") =>
              /\ Len(editor'.ctx.trace) = Len(Subs)
              /\ \A i \in 1..Len(Subs) :
                    \E k \in 1..Len(Subs) : editor'.ctx.trace[k] = <<"finalize", i>>
              /\ editor'.command.commands = <<>>]_vars
C27_Witness ==
    /\ editor.command.kind = "Group"
    /\ Len(editor.command.commands) = MaxGroup
    /\ editor.stack = "reverted"
    /\ editor.ctx.trace = [k \in 1..MaxGroup |-> <<"revert", MaxGroup + 1 - k>>]
    /\ \E k \in 1..MaxGroup : /\ editor.command.commands[k].kind = "Paste"
                               /\ editor.command.commands[k].state.tag = "Reverted"

\* The paste commands the editor holds: its command, or sub-commands of it.
PasteCommands ==
    CASE editor.command.kind = "Paste" -> {editor.command}
      [] editor.command.kind = "Group" ->
            {c \in Range(editor.command.commands) : c.kind = "Paste"}
      [] OTHER -> {}

\* C28: while the calls follow the undo stack's protocol, no call panics, a
\* paste command is NonExecuted before the first call, Executed after every
\* execute and Reverted after every revert (so never Undefined between two
\* calls).
C28_PasteStateUnderProtocol ==
    /\ editor.stack \in {"fresh", "executed", "reverted", "finalized"} => ~editor.ctx.panicked
    /\ \A c \in PasteCommands :
          /\ editor.stack = "fresh" => c.state.tag = "NonExecuted"
          /\ editor.stack = "executed" => c.state.tag = "Executed"
          /\ editor.stack = "reverted" => c.state.tag = "Reverted"
C28_Witness ==
    /\ editor.command.kind = "Paste"
    /\ editor.stack = "reverted"
    /\ editor.command.state.tag = "Reverted"
    /\ editor.command.state.subgraphs # <<>>
    /\ editor.ctx.graph.reserved # {}

\* C29: revert of a paste command that is NonExecuted or Reverted changes
\* nothing: the command keeps its state, the scene graph and the selection
\* stay as they are, and an execute right after it does not panic.
C29_RevertOutOfTurnIsNoOp ==
    [][(/\ editor.command.kind = "Paste"
        /\ editor.command.state.tag \in {"NonExecuted", "Reverted"}
        /\ editor' = AfterCall("revert")) =>
          /\ editor'.command = editor.command
          /\ editor'.ctx.graph = editor.ctx.graph
          /\ editor'.ctx.selection = editor.ctx.selection
          /\ ~Call("execute", editor'.command, editor'.ctx).ctx.panicked]_vars

\* The editor's selection and the state of its paste command.
Selected == editor.ctx.selection
PasteState == editor.command.state

\* C30: execute of a new paste command makes the graph selection of the
\* pasted roots (the nodes the paste added) the editor's selection and keeps
\* the selection it replaced; the revert after it gives the editor the kept
\* selection back and takes the pasted roots out of the graph; the execute
\* after that puts the roots back and selects them again.
C30_PasteSelectionRoundTrip ==
    [][editor.command.kind = "Paste" =>
        /\ (PasteState.tag = "NonExecuted" /\ Returns("execute")) =>
              /\ editor'.ctx.selection = GraphSelection(editor'.command.state.paste_result)
              /\ Range(editor'.command.state.paste_result)
                    = editor'.ctx.graph.nodes \ editor.ctx.graph.nodes
              /\ Len(editor'.command.state.paste_result) = editor.ctx.clipboard
              /\ editor'.command.state.last_selection = Selected
        /\ (PasteState.tag = "Executed" /\ Returns("revert")) =>
              /\ editor'.ctx.selection = PasteState.last_selection
              /\ editor'.command.state.selection = GraphSelection(PasteState.paste_result)
              /\ editor'.ctx.graph.nodes = editor.ctx.graph.nodes \ Range(PasteState.paste_result)
        /\ (PasteState.tag = "Reverted" /\ Returns("execute")) =>
              /\ editor'.ctx.selection = GraphSelection(editor'.command.state.paste_result)
              /\ editor'.command.state.paste_result = PasteState.subgraphs
              /\ Range(PasteState.subgraphs) \subseteq editor'.ctx.graph.nodes
              /\ editor'.command.state.last_selection = Selected]_vars
C30_Witness ==
    /\ editor.command.kind = "Paste"
    /\ editor.op = "revert"
    /\ PasteState.tag = "Reverted"
    /\ Len(PasteState.subgraphs) = MaxRoots
    /\ PasteState.selection = GraphSelection(PasteState.subgraphs)
    /\ Selected = GraphSelection(<<ContentRoot>>)

\* C31: a selection command made with (new, old) leaves the context
\* selection at new after execute and at old after the revert that follows,
\* and so on in turn for as long as execute and revert alternate; each call
\* gives the context the stored new selection and swaps the two stored ones.
C31_ChangeSelectionRoundTrip ==
    [][editor.command.kind = "ChangeSelection" =>
        /\ editor'.stack = "executed" => editor'.ctx.selection = editor.made.new_selection
        /\ editor'.stack = "reverted" => editor'.ctx.selection = editor.made.old_selection
        /\ (Returns("execute") \/ Returns("revert")) =>
              /\ editor'.ctx.selection = editor.command.new_selection
              /\ editor'.command.new_selection = editor.command.old_selection
              /\ editor'.command.old_selection = editor.command.new_selection]_vars
C31_Witness ==
    /\ editor.command.kind = "ChangeSelection"
    /\ editor.made.new_selection # editor.made.old_selection
    /\ editor.stack = "reverted"
    /\ editor.ctx.selection = editor.made.old_selection
    /\ editor.command = editor.made

\* C32: a call of execute or revert on a selection command sends one
\* SelectionChanged message when the selection it applies (the stored new
\* one) differs from the context's, and the context has the applied
\* selection by the time the message is sent; when the two are equal the
\* context's selection stays as it is and nothing is sent.
C32_MessageIffSelectionChanges ==
    [][(/\ editor.command.kind = "ChangeSelection"
        /\ Returns("execute") \/ Returns("revert")) =>
          IF editor.command.new_selection # Selected
          THEN /\ Len(editor'.ctx.sent) = 1
               /\ editor'.ctx.sent[1].selection = editor.command.new_selection
               /\ editor'.ctx.sent[1].old_selection = editor.command.old_selection
               /\ editor'.ctx.selection = editor.command.new_selection
          ELSE /\ editor'.ctx.sent = <<>>
               /\ editor'.ctx.selection = Selected]_vars
C32_Witness ==
    /\ editor.command.kind = "ChangeSelection"
    /\ editor.stack = "reverted"
    /\ Len(editor.ctx.sent) = 1
    /\ editor.ctx.sent[1].selection = Selected
    /\ editor.ctx.sent[1].old_selection = editor.made.new_selection
    /\ Selected = editor.made.old_selection

\* A node other than the scene's content root.
NotContentRoot(n) == n # ContentRoot
\* This step builds the command that deletes the selection in the scene.
MakesDeleteSelectionCommand ==
    /\ editor'.op = "make_delete_selection_command"
    /\ editor.op # "make_delete_selection_command"

\* C33: the selection to delete never holds the scene's content root: for a
\* graph selection it is the selected nodes without the content root, the
\* others in their order, and for any other selection it is empty; the
\* editor's selection stays as it is; the command built from it starts with
\* the selection change and has no delete command for the content root.
C33_DeleteSelectionSparesRoot ==
    [][MakesDeleteSelectionCommand =>
        LET to_delete == selection_to_delete(Selected, ContentRoot)
            commands == editor'.command.commands
        IN /\ \A k \in 1..Len(to_delete) : to_delete[k] # ContentRoot
           /\ Selected.kind = "Graph" => to_delete = SelectSeq(Selected.nodes, NotContentRoot)
           /\ Selected.kind # "Graph" => to_delete = <<>>
           /\ editor'.ctx.selection = Selected
           /\ commands[1] = ChangeSelectionCommand(NoSelection, GraphSelection(to_delete))
           /\ \A k \in 2..Len(commands) :
                 /\ commands[k].kind = "DeleteSubGraph"
                 /\ commands[k].sub_graph_root # ContentRoot
                 /\ \E j \in 1..Len(to_delete) : to_delete[j] = commands[k].sub_graph_root]_vars
C33_Witness ==
    /\ editor.op = "make_delete_selection_command"
    /\ Selected.kind = "Graph"
    /\ Len(Selected.nodes) = 3
    /\ Selected.nodes[2] = ContentRoot
    /\ Len(editor.command.commands) = 3
    /\ editor.command.commands[1].old_selection.nodes = <<Selected.nodes[1], Selected.nodes[3]>>

\* The widgets above h in the user interface, by the parent links.
RECURSIVE Ancestors(_)
Ancestors(h) ==
    IF h \in DOMAIN editor.ui.parent
    THEN {editor.ui.parent[h]} \cup Ancestors(editor.ui.parent[h])
    ELSE {}
\* No selected widget is above w.
NoSelectedAncestor(w) == Ancestors(w) \cap Range(Selected.nodes) = {}

\* C34: root_widgets gives, in the order of the selection, exactly the
\* selected widgets that have no selected widget above them; every selected
\* widget is one of them or below one of them, none of them is below
\* another or given twice, and the deletion command holds the selection
\* change and then one delete command for each of them.
C34_RootWidgets ==
    editor.op = "make_deletion_command" =>
        LET widgets == Selected.nodes
            roots == root_widgets(widgets, editor.ui)
            commands == editor.command.commands
        IN /\ roots = SelectSeq(widgets, NoSelectedAncestor)
           /\ \A k \in 1..Len(widgets) :
                 \E j \in 1..Len(roots) : roots[j] = widgets[k] \/ roots[j] \in Ancestors(widgets[k])
           /\ \A i \in 1..Len(roots), j \in 1..Len(roots) :
                 i # j => roots[i] # roots[j] /\ roots[i] \notin Ancestors(roots[j])
           /\ Len(commands) = Len(roots) + 1
           /\ commands[1] = ChangeUiSelectionCommand(NoSelection, Selected)
           /\ \A k \in 1..Len(roots) : commands[k + 1] = DeleteWidgetsSubGraphCommand(roots[k])
C34_Witness ==
    /\ editor.op = "make_deletion_command"
    /\ Len(Selected.nodes) = 3
    /\ Len(editor.command.commands) = 2
    /\ editor.command.commands[2].sub_graph_root # ContentRoot
    /\ \E k \in 2..3 :
          /\ Selected.nodes[k] \in Ancestors(Selected.nodes[1])
          /\ Selected.nodes[k] # editor.ui.parent[Selected.nodes[1]]
====
